---------------------------- MODULE Spec2Model ----------------------------
(***************************************************************************)
(* Model of pumpfun_mint_harvest.py: a websocket log subscriber that       *)
(* decodes token-creation events, enriches them with fetched metadata and  *)
(* appends them to a CSV file, under a reconnecting supervisor.            *)
(*                                                                         *)
(* Text is a sequence of Unicode code points, bytes are a sequence of      *)
(* 0..255.  A Python value is a record [t, v]: t is its type, v its        *)
(* content.  A call that raises returns a record with ok = FALSE.          *)
(***************************************************************************)
EXTENDS Integers, Sequences, FiniteSets, TLC

VARIABLES
    pc,            \* position of the process, or of a function-level run
    retry_count,   \* logs_subscribe's local retry_count
    sleep_time,    \* the last delay handed to asyncio.sleep by logs_subscribe
    csv_file,      \* rows of token_logs.csv, each a sequence of cells
    last,          \* what the last executed handler did (observation only)
    arg,           \* function-level runs: the input of the function under call;
                   \* the process: requests sent on the connection, messages
                   \* received and the last of them
    ret            \* function-level runs: the result of the function under call

vars == <<pc, retry_count, sleep_time, csv_file, last, arg, ret>>

(***************************************************************************)
(* Python values                                                           *)
(***************************************************************************)
Str(s) == [t |-> "str", v |-> s]
PyNone == [t |-> "none", v |-> <<>>]
PyInt(n) == [t |-> "int", v |-> <<n>>]

Min(a, b) == IF a < b THEN a ELSE b

\* data[lo:hi] of Python for 0 <= lo: the slice is clamped to the data, never an error
PySlice(data, lo, hi) == SubSeq(data, Min(lo, Len(data)) + 1, Min(hi, Len(data)))

\* s.startswith(prefix)
StartsWith(s, prefix) ==
    /\ Len(prefix) <= Len(s)
    /\ SubSeq(s, 1, Len(prefix)) = prefix

\* the least 1-based index at which sub occurs in s, 0 if none (s.find(sub) + 1)
Find(s, sub) ==
    LET at == {i \in 1..(Len(s) - Len(sub) + 1) : SubSeq(s, i, i + Len(sub) - 1) = sub}
    IN  IF at = {} THEN 0 ELSE CHOOSE i \in at : \A j \in at : i <= j

\* sub in s
Contains(s, sub) == Find(s, sub) # 0

\* s.lstrip(chr(c))
LStrip(s, c) ==
    LET keep == {i \in 1..Len(s) : s[i] # c}
    IN  IF keep = {} THEN <<>>
        ELSE SubSeq(s, CHOOSE i \in keep : \A j \in keep : i <= j, Len(s))

\* s.rstrip(chr(c))
RStrip(s, c) ==
    LET keep == {i \in 1..Len(s) : s[i] # c}
    IN  IF keep = {} THEN <<>>
        ELSE SubSeq(s, 1, CHOOSE i \in keep : \A j \in keep : i >= j)

\* s.strip(chr(c)): both ends
Strip(s, c) == RStrip(LStrip(s, c), c)

(***************************************************************************)
(* bytes.hex() and bytes.fromhex()                                         *)
(***************************************************************************)
HexDigit(n) == IF n < 10 THEN 48 + n ELSE 87 + n

\* bytes.hex(): two lower-case digits per byte
Hex(bytes) ==
    [i \in 1..(2 * Len(bytes)) |->
        IF i % 2 = 1 THEN HexDigit(bytes[(i + 1) \div 2] \div 16)
        ELSE HexDigit(bytes[i \div 2] % 16)]

HexVal(c) ==
    IF c >= 48 /\ c <= 57 THEN c - 48
    ELSE IF c >= 97 /\ c <= 102 THEN c - 87
    ELSE IF c >= 65 /\ c <= 70 THEN c - 55
    ELSE -1

FromHexDigits(h) ==
    [i \in 1..(Len(h) \div 2) |-> 16 * HexVal(h[2 * i - 1]) + HexVal(h[2 * i])]

\* bytes.fromhex(h) for h without white space: ValueError on an odd length or a
\* character that is no hexadecimal digit
FromHex(h) ==
    IF Len(h) % 2 = 0 /\ \A i \in 1..Len(h) : HexVal(h[i]) >= 0
    THEN [ok |-> TRUE, bytes |-> FromHexDigits(h)]
    ELSE [ok |-> FALSE, bytes |-> <<>>]

(***************************************************************************)
(* bytes.decode('utf-8'), strict                                           *)
(***************************************************************************)
IsCont(b) == b >= 128 /\ b <= 191

\* the length of the well-formed UTF-8 sequence that starts at bytes[i], 0 if none
Utf8SeqLen(bytes, i) ==
    LET n == Len(bytes)
        b1 == bytes[i]
        b2 == IF i + 1 <= n THEN bytes[i + 1] ELSE 0
        b3 == IF i + 2 <= n THEN bytes[i + 2] ELSE 0
        b4 == IF i + 3 <= n THEN bytes[i + 3] ELSE 0
    IN  IF b1 <= 127 THEN 1
        ELSE IF b1 >= 194 /\ b1 <= 223 THEN (IF IsCont(b2) THEN 2 ELSE 0)
        ELSE IF b1 = 224 THEN (IF b2 >= 160 /\ b2 <= 191 /\ IsCont(b3) THEN 3 ELSE 0)
        ELSE IF b1 = 237 THEN (IF b2 >= 128 /\ b2 <= 159 /\ IsCont(b3) THEN 3 ELSE 0)
        ELSE IF b1 >= 225 /\ b1 <= 239 THEN (IF IsCont(b2) /\ IsCont(b3) THEN 3 ELSE 0)
        ELSE IF b1 = 240
            THEN (IF b2 >= 144 /\ b2 <= 191 /\ IsCont(b3) /\ IsCont(b4) THEN 4 ELSE 0)
        ELSE IF b1 >= 241 /\ b1 <= 243
            THEN (IF IsCont(b2) /\ IsCont(b3) /\ IsCont(b4) THEN 4 ELSE 0)
        ELSE IF b1 = 244
            THEN (IF b2 >= 128 /\ b2 <= 143 /\ IsCont(b3) /\ IsCont(b4) THEN 4 ELSE 0)
        ELSE 0

\* the code point of the well-formed sequence of k bytes at bytes[i]
Utf8CodePoint(bytes, i, k) ==
    IF k = 1 THEN bytes[i]
    ELSE IF k = 2 THEN (bytes[i] - 192) * 64 + (bytes[i + 1] - 128)
    ELSE IF k = 3
        THEN (bytes[i] - 224) * 4096 + (bytes[i + 1] - 128) * 64 + (bytes[i + 2] - 128)
    ELSE (bytes[i] - 240) * 262144 + (bytes[i + 1] - 128) * 4096
            + (bytes[i + 2] - 128) * 64 + (bytes[i + 3] - 128)

\* bytes is well-formed UTF-8: a sequence starts at every byte that is not a
\* continuation byte, and every continuation byte belongs to the sequence
\* that starts before it
Utf8WellFormed(bytes) ==
    \A i \in 1..Len(bytes) :
        IF IsCont(bytes[i])
        THEN \E j \in 1..3 : /\ i - j >= 1
                             /\ ~IsCont(bytes[i - j])
                             /\ Utf8SeqLen(bytes, i - j) > j
        ELSE Utf8SeqLen(bytes, i) > 0

\* for every byte the code point of the sequence that starts there, -1 for
\* a continuation byte
Utf8Marks(bytes) ==
    [i \in 1..Len(bytes) |->
        IF IsCont(bytes[i]) THEN -1 ELSE Utf8CodePoint(bytes, i, Utf8SeqLen(bytes, i))]

\* bytes.decode('utf-8'): the code points in order, or UnicodeDecodeError
Utf8Decode(bytes) ==
    IF Utf8WellFormed(bytes)
    THEN [ok |-> TRUE, text |-> SelectSeq(Utf8Marks(bytes), LAMBDA c : c >= 0)]
    ELSE [ok |-> FALSE, text |-> <<>>]

(***************************************************************************)
(* str(Pubkey): base58 of the 32 bytes                                     *)
(***************************************************************************)
Base58Alphabet ==
    <<49, 50, 51, 52, 53, 54, 55, 56, 57, 65, 66, 67, 68, 69, 70, 71, 72, 74, 75,
      76, 77, 78, 80, 81, 82, 83, 84, 85, 86, 87, 88, 89, 90, 97, 98, 99, 100, 101,
      102, 103, 104, 105, 106, 107, 109, 110, 111, 112, 113, 114, 115, 116, 117,
      118, 119, 120, 121, 122>>

\* the big-endian number num divided by 58: <<quotient, remainder>>
RECURSIVE DivMod58(_, _, _, _)
DivMod58(num, i, carry, quot) ==
    IF i > Len(num) THEN <<quot, carry>>
    ELSE LET acc == carry * 256 + num[i]
         IN  DivMod58(num, i + 1, acc % 58, Append(quot, acc \div 58))

\* the base58 digits of the big-endian number num, most significant first
RECURSIVE Base58Digits(_)
Base58Digits(num) ==
    LET n == LStrip(num, 0)
    IN  IF n = <<>> THEN <<>>
        ELSE LET qr == DivMod58(n, 1, 0, <<>>)
             IN  Append(Base58Digits(qr[1]), Base58Alphabet[qr[2] + 1])

\* base58: one "1" per leading zero byte, then the digits of the number
Base58(bytes) ==
    LET zeros == Len(bytes) - Len(LStrip(bytes, 0))
    IN  [i \in 1..zeros |-> 49] \o Base58Digits(bytes)

(***************************************************************************)
(* parse_event_data                                                        *)
(***************************************************************************)
PubkeyLen == 32
TagLen == 8

\* A Python integer that may pass 31 bits (an unsigned length of 32 bits, an
\* offset behind it): the number hi * 65536 + lo with lo in 0..65535
Wide(n) == [hi |-> n \div 65536, lo |-> n % 65536]

\* a + b
WideAdd(a, b) ==
    [hi |-> a.hi + b.hi + ((a.lo + b.lo) \div 65536), lo |-> (a.lo + b.lo) % 65536]

\* min(w, n) for n a length of a buffer: the index at which a slice bound w
\* comes to lie (data[lo:hi] puts bounds past the end at the end)
WideMin(w, n) ==
    IF w.hi > n \div 65536 \/ (w.hi = n \div 65536 /\ w.lo >= n % 65536) THEN n
    ELSE w.hi * 65536 + w.lo

\* data[lo:hi] for lo and hi that may pass 31 bits
WideSlice(data, lo, hi) == PySlice(data, WideMin(lo, Len(data)), WideMin(hi, Len(data)))

\* struct.unpack('<I', b)[0]: struct.error unless b has exactly 4 bytes
UnpackU32LE(b) ==
    IF Len(b) # 4 THEN [ok |-> FALSE, n |-> Wide(0)]
    ELSE [ok |-> TRUE, n |-> [hi |-> b[3] + 256 * b[4], lo |-> b[1] + 256 * b[2]]]

RaisedRead == [ok |-> FALSE, val |-> <<>>, offset |-> Wide(0)]

\* lines 42-44: the string of `length` bytes at offset
ReadString(data, offset, length) ==
    LET d == Utf8Decode(WideSlice(data, offset, WideAdd(offset, length)))
    IN  IF ~d.ok THEN RaisedRead
        ELSE [ok |-> TRUE, val |-> Strip(d.text, 0), offset |-> WideAdd(offset, length)]

read_length_prefixed_string(data, offset) ==
    LET u == UnpackU32LE(WideSlice(data, offset, WideAdd(offset, Wide(4))))
    IN  IF ~u.ok THEN RaisedRead ELSE ReadString(data, WideAdd(offset, Wide(4)), u.n)

\* Pubkey.from_bytes without the check of the length
PubkeyFromAnyBytes(pubkey_data, offset) ==
    [ok |-> TRUE, val |-> Base58(pubkey_data), offset |-> offset]

\* Pubkey.from_bytes raises ValueError unless it is given exactly 32 bytes
PubkeyFromBytes(pubkey_data, offset) ==
    IF Len(pubkey_data) # PubkeyLen THEN RaisedRead
    ELSE [ok |-> TRUE, val |-> Base58(pubkey_data), offset |-> offset]

read_pubkey(data, offset) ==
    PubkeyFromBytes(WideSlice(data, offset, WideAdd(offset, Wide(PubkeyLen))),
                    WideAdd(offset, Wide(PubkeyLen)))

RaisedParse == [ok |-> FALSE, event |-> <<>>]

\* lines 53-58: the fields in the order they are read
EventFields == <<"name", "symbol", "uri", "mint", "bonding_curve", "user">>

ReadField(data, offset, i) ==
    IF i <= 3 THEN read_length_prefixed_string(data, offset)
    ELSE read_pubkey(data, offset)

\* lines 53-58 from field i on: event_data, filled as the cursor moves on; r is
\* what reading field i gave
RECURSIVE ReadFields(_, _, _, _)
AfterField(data, i, event_data, r) ==
    IF ~r.ok THEN RaisedParse
    ELSE ReadFields(data, r.offset, i + 1,
                    Append(event_data, [k |-> EventFields[i], v |-> Str(r.val)]))

ReadFields(data, offset, i, event_data) ==
    IF i > Len(EventFields) THEN [ok |-> TRUE, event |-> event_data]
    ELSE AfterField(data, i, event_data, ReadField(data, offset, i))

ParseBytes(h) ==
    IF ~h.ok THEN RaisedParse ELSE ReadFields(h.bytes, Wide(TagLen), 1, <<>>)

\* the dict event_data, in insertion order, or the exception re-raised at line 63
parse_event_data(data_hex) == ParseBytes(FromHex(data_hex))

(***************************************************************************)
(* fetch_token_metadata                                                    *)
(*                                                                         *)
(* What requests.get does is the environment's choice, a record            *)
(*   [kind |-> "raise"]                   a network error or a timeout     *)
(*   [kind |-> "response", status, body]  a response                       *)
(* with body [t |-> "notjson"] or a JSON value [t, d]: t = "dict" with d    *)
(* the function from its keys to their values, or t in "list", "str",      *)
(* "int", "none".                                                          *)
(***************************************************************************)
NA == <<78, 65>>                \* "NA"
HttpPrefix == <<104, 116, 116, 112, 58, 47, 47>>           \* "http://"
HttpsPrefix == <<104, 116, 116, 112, 115, 58, 47, 47>>     \* "https://"
TwitterBase ==                  \* "https://twitter.com/"
    <<104, 116, 116, 112, 115, 58, 47, 47, 116, 119, 105, 116, 116, 101, 114, 46,
      99, 111, 109, 47>>
TelegramBase ==                 \* "https://t.me/"
    <<104, 116, 116, 112, 115, 58, 47, 47, 116, 46, 109, 101, 47>>
At == 64                        \* "@"

MetadataKeys == <<"image", "twitter", "telegram", "website">>

\* the dict returned at lines 96-101
AllNA == [i \in 1..4 |-> [k |-> MetadataKeys[i], v |-> Str(NA)]]

\* data.get(key, 'NA') on a dict
DictGet(d, key) == IF key \in DOMAIN d THEN d[key] ELSE Str(NA)

\* response.raise_for_status(): HTTPError for a 4xx or 5xx status
RaisesForStatus(status) == status >= 400 /\ status < 600

\* s.startswith(('http://', 'https://'))
HasHttpPrefix(s) == StartsWith(s, HttpPrefix) \/ StartsWith(s, HttpsPrefix)

\* lines 83-90 for one link: value.startswith is an AttributeError unless value is
\* a str; strip_at says whether the handle loses its leading "@"s (lstrip('@'))
CleanLink(value, base, strip_at) ==
    IF value = Str(NA) THEN [ok |-> TRUE, v |-> value]
    ELSE IF value.t # "str" THEN [ok |-> FALSE, v |-> value]
    ELSE IF HasHttpPrefix(value.v) THEN [ok |-> TRUE, v |-> value]
    ELSE [ok |-> TRUE,
          v |-> Str(base \o (IF strip_at THEN LStrip(value.v, At) ELSE value.v))]

\* lines 71-92: the dict metadata, or the exception raised inside the try block
FetchTry(uri, outcome) ==
    IF outcome.kind = "raise" THEN [ok |-> FALSE, metadata |-> <<>>]
    ELSE IF RaisesForStatus(outcome.status) THEN [ok |-> FALSE, metadata |-> <<>>]
    ELSE IF outcome.body.t # "dict" THEN [ok |-> FALSE, metadata |-> <<>>]
    ELSE LET data == outcome.body.d
             image == DictGet(data, "image")
             twitter == CleanLink(DictGet(data, "twitter"), TwitterBase, TRUE)
             telegram == CleanLink(DictGet(data, "telegram"), TelegramBase, TRUE)
             website == CleanLink(DictGet(data, "website"), HttpsPrefix, FALSE)
         IN  IF ~twitter.ok \/ ~telegram.ok \/ ~website.ok
             THEN [ok |-> FALSE, metadata |-> <<>>]
             ELSE [ok |-> TRUE,
                   metadata |-> << [k |-> "image", v |-> image],
                                   [k |-> "twitter", v |-> twitter.v],
                                   [k |-> "telegram", v |-> telegram.v],
                                   [k |-> "website", v |-> website.v] >>]

\* lines 70-101: every Exception of the try block is caught and answered with AllNA
fetch_token_metadata(uri, outcome) ==
    LET r == FetchTry(uri, outcome)
    IN  IF r.ok THEN [raised |-> FALSE, metadata |-> r.metadata]
        ELSE [raised |-> FALSE, metadata |-> AllNA]

(***************************************************************************)
(* base64.b64decode(text): binascii.a2b_base64, not strict                 *)
(***************************************************************************)
Pad == 61                       \* "="

\* the value of a base64 digit, -1 for any other character
B64Val(c) ==
    IF c >= 65 /\ c <= 90 THEN c - 65
    ELSE IF c >= 97 /\ c <= 122 THEN c - 71
    ELSE IF c >= 48 /\ c <= 57 THEN c + 4
    ELSE IF c = 43 THEN 62
    ELSE IF c = 47 THEN 63
    ELSE -1

IsB64Digit(c) == B64Val(c) >= 0

\* the number of base64 digits in s[1..n]
DigitsBefore(s, n) == Len(SelectSeq(SubSeq(s, 1, n), IsB64Digit))

\* the pads between the last digit before position i and position i
PadsBefore(s, i) ==
    LET digits == {j \in 1..(i - 1) : IsB64Digit(s[j])}
        from == IF digits = {} THEN 0 ELSE CHOOSE j \in digits : \A k \in digits : j >= k
    IN  Cardinality({j \in (from + 1)..(i - 1) : s[j] = Pad})

\* the scan of a2b_base64 (quad_pos: the digits read modulo 4; pads: the pads
\* counted since the last digit): characters outside the alphabet are skipped; a
\* pad met with quad_pos >= 2 and quad_pos + pads >= 4, itself counted, ends the
\* scan; a pad met with quad_pos < 2 is not counted
B64Stops(s) ==
    {i \in 1..Len(s) :
        /\ s[i] = Pad
        /\ LET quad_pos == DigitsBefore(s, i - 1) % 4
           IN  quad_pos >= 2 /\ quad_pos + PadsBefore(s, i) + 1 >= 4}

\* the bytes of the digit values d: three for every four digits, one for two
\* digits left over and two for three
B64Bytes(d) ==
    LET n == Len(d)
        left == IF n % 4 = 2 THEN 1 ELSE IF n % 4 = 3 THEN 2 ELSE 0
    IN  [k \in 1..(3 * (n \div 4) + left) |->
            LET q == 4 * ((k - 1) \div 3)
            IN  IF (k - 1) % 3 = 0 THEN d[q + 1] * 4 + (d[q + 2] \div 16)
                ELSE IF (k - 1) % 3 = 1 THEN (d[q + 2] % 16) * 16 + (d[q + 3] \div 4)
                ELSE (d[q + 3] % 4) * 64 + d[q + 4]]

\* binascii.Error when the data ends inside a quad that no pads completed
B64Scan(s) ==
    LET stops == B64Stops(s)
        stop == IF stops = {} THEN Len(s) + 1
                ELSE CHOOSE i \in stops : \A j \in stops : i <= j
        digits == SelectSeq(SubSeq(s, 1, stop - 1), IsB64Digit)
        d == [i \in 1..Len(digits) |-> B64Val(digits[i])]
    IN  [ok |-> stops # {} \/ Len(d) % 4 = 0, bytes |-> B64Bytes(d)]

\* a str argument is encoded as ASCII first: ValueError on any other character
b64decode(text) ==
    IF \E i \in 1..Len(text) : text[i] > 127 THEN [ok |-> FALSE, bytes |-> <<>>]
    ELSE LET r == B64Scan(text)
         IN  IF r.ok THEN r ELSE [ok |-> FALSE, bytes |-> <<>>]

(***************************************************************************)
(* get_current_time and write_to_csv                                       *)
(***************************************************************************)
Digit(n) == 48 + n
TwoDigits(n) == <<Digit((n \div 10) % 10), Digit(n % 10)>>
FourDigits(n) == TwoDigits(n \div 100) \o TwoDigits(n % 100)

\* strftime('%Y-%m-%d %H:%M:%S') of the datetime now (its fields, UTC)
get_current_time(now) ==
    FourDigits(now.year) \o <<45>> \o TwoDigits(now.month) \o <<45>>
        \o TwoDigits(now.day) \o <<32>> \o TwoDigits(now.hour) \o <<58>>
        \o TwoDigits(now.minute) \o <<58>> \o TwoDigits(now.second)

\* str(n): the decimal digits, behind a minus sign for n < 0
RECURSIVE Decimal(_)
Decimal(n) ==
    IF n < 0 THEN <<45>> \o Decimal(0 - n)
    ELSE IF n < 10 THEN <<Digit(n)>>
    ELSE Append(Decimal(n \div 10), Digit(n % 10))

\* the text csv.writer puts in a cell: None is written as the empty string, any
\* other value that is no str as str(value).  (Quoting is below this model: a
\* cell is the text a csv reader gets back.)
CsvCell(value) ==
    IF value.t = "str" THEN value.v
    ELSE IF value.t = "none" THEN <<>>
    ELSE IF value.t = "int" THEN Decimal(value.v[1])
    ELSE <<91, 93>>             \* str([]) of the empty list

\* DictWriter(fieldnames=data.keys()): the header row holds the keys and a data
\* row the cells, both in the dict's insertion order (keys: the columns of the cells)
HeaderOf(data) ==
    [header |-> TRUE, keys |-> [i \in 1..Len(data) |-> data[i].k], cells |-> <<>>]
RowOf(data) ==
    [header |-> FALSE, keys |-> [i \in 1..Len(data) |-> data[i].k],
     cells |-> [i \in 1..Len(data) |-> CsvCell(data[i].v)]]

\* write_to_csv that writes the header on every call
write_to_csv_header_always(data, file, io) ==
    IF io = "open_fails" THEN [raised |-> FALSE, file |-> file, wrote |-> FALSE]
    ELSE IF io = "row_fails"
        THEN [raised |-> FALSE, file |-> Append(file, HeaderOf(data)), wrote |-> FALSE]
    ELSE [raised |-> FALSE, file |-> Append(Append(file, HeaderOf(data)), RowOf(data)),
          wrote |-> TRUE]

\* write_to_csv that puts the row in front of the rows it finds
write_to_csv_in_front(data, file, io) ==
    IF io = "open_fails" THEN [raised |-> FALSE, file |-> file, wrote |-> FALSE]
    ELSE IF io = "row_fails"
        THEN [raised |-> FALSE, file |-> IF file = <<>> THEN <<HeaderOf(data)>> ELSE file,
              wrote |-> FALSE]
    ELSE [raised |-> FALSE,
          file |-> <<HeaderOf(data), RowOf(data)>>
                      \o (IF file = <<>> THEN <<>> ELSE Tail(file)),
          wrote |-> TRUE]

\* lines 105-113.  io is the file system's answer: "ok"; "open_fails" (open
\* raises OSError, nothing is written); "row_fails" (writerow raises, e.g. a
\* character the file's encoding lacks: a header already written stays, as the
\* with block closes the file).  file.tell() == 0 in append mode: the file is empty.
write_to_csv(data, file, io) ==
    LET with_header == IF file = <<>> THEN <<HeaderOf(data)>> ELSE file
    IN  IF io = "open_fails" THEN [raised |-> FALSE, file |-> file, wrote |-> FALSE]
        ELSE IF io = "row_fails"
            THEN [raised |-> FALSE, file |-> with_header, wrote |-> FALSE]
        ELSE [raised |-> FALSE, file |-> Append(with_header, RowOf(data)), wrote |-> TRUE]

(***************************************************************************)
(* process_logs_response                                                   *)
(*                                                                         *)
(* A received text is a record [kind, logs]:                               *)
(*   "not_json"   json.loads raises                                        *)
(*   "bad_shape"  JSON in which a step of the .get chain is no dict, or    *)
(*                whose logs is a number, true, false, null or a list that *)
(*                holds something that is no str: the chain or join raises *)
(*   "no_logs"    JSON without params.result.value.logs: logs = []         *)
(*   "logs"       JSON whose logs is the list of str `logs`                *)
(*   "logs_dict"  JSON whose logs is an object: join and the loop walk its *)
(*                keys, `logs`, in the order of their first occurrence     *)
(*   "logs_str"   JSON whose logs is a str: join and the loop walk its     *)
(*                characters, `logs` (each a str of length 1)              *)
(* env[j] is the environment of the j-th decoded event of the message: the *)
(* clock (now), the answer to the metadata request (fetch) and that of the *)
(* file system (io).                                                       *)
(***************************************************************************)
InstructionMarker ==            \* "Instruction: InitializeMint2"
    <<73, 110, 115, 116, 114, 117, 99, 116, 105, 111, 110, 58, 32, 73, 110, 105,
      116, 105, 97, 108, 105, 122, 101, 77, 105, 110, 116, 50>>
DataMarker ==                   \* "Program data: "
    <<80, 114, 111, 103, 114, 97, 109, 32, 100, 97, 116, 97, 58, 32>>
ExcludedPrefix ==               \* "Program data: vdt/"
    <<80, 114, 111, 103, 114, 97, 109, 32, 100, 97, 116, 97, 58, 32, 118, 100,
      116, 47>>

\* ''.join(logs)
RECURSIVE Join(_)
Join(logs) ==
    IF Len(logs) = 0 THEN <<>>
    ELSE IF Len(logs) = 1 THEN logs[1]
    ELSE Join(SubSeq(logs, 1, Len(logs) \div 2))
            \o Join(SubSeq(logs, Len(logs) \div 2 + 1, Len(logs)))

\* s.split(sep)[1] for s that holds sep: the text between the first sep and the next
Split1(s, sep) ==
    LET i == Find(s, sep)
        rest == SubSeq(s, i + Len(sep), Len(s))
        j == Find(rest, sep)
    IN  IF j = 0 THEN rest ELSE SubSeq(rest, 1, j - 1)

\* d[key] = value on a dict kept as the sequence of its items
DictSet(d, key, value) ==
    IF \E i \in 1..Len(d) : d[i].k = key
    THEN [i \in 1..Len(d) |-> IF d[i].k = key THEN [k |-> key, v |-> value] ELSE d[i]]
    ELSE Append(d, [k |-> key, v |-> value])

\* d.update(other)
RECURSIVE DictUpdate(_, _)
DictUpdate(d, other) ==
    IF other = <<>> THEN d
    ELSE DictUpdate(DictSet(d, Head(other).k, Head(other).v), Tail(other))

DictValue(d, key) == (CHOOSE i \in 1..Len(d) : d[i].k = key)

\* what a dispatch did: the exception that left the try block ("none" if none),
\* the calls made and the rows appended
NoEffects(file) ==
    [file |-> file, caught |-> "none", parsed |-> 0, fetched |-> 0, written |-> 0,
     appended |-> 0]

\* lines 110-113 with the prints that raise for this entry (e.out): the print
\* of line 111 stands in the try block, after the with block has closed the
\* file; when it raises, or open or writerow raised, the handler prints
\* (113), and an exception of that print leaves write_to_csv.  What was
\* written stays written.
write_to_csv_reporting(data, file, e) ==
    [write_to_csv(data, file, e.io) EXCEPT
        !.raised = (e.io # "ok" \/ 111 \in e.out) /\ 113 \in e.out]

\* lines 93-95 with the prints that raise for this entry: the handler of
\* fetch_token_metadata prints (95) before it answers AllNA, and an exception
\* of that print leaves fetch_token_metadata
fetch_token_metadata_reporting(uri, e) ==
    IF ~FetchTry(uri, e.fetch).ok /\ 95 \in e.out
    THEN [raised |-> TRUE, metadata |-> <<>>]
    ELSE fetch_token_metadata(uri, e.fetch)

\* line 137, and the effects acc of the entries before extended by this entry's
AfterWrite(written, acc) ==
    IF written.raised
    THEN [acc EXCEPT !.file = written.file, !.caught = "write_to_csv",
                     !.parsed = @ + 1, !.fetched = @ + 1, !.written = @ + 1,
                     !.appended = IF written.wrote THEN @ + 1 ELSE @]
    ELSE [acc EXCEPT !.file = written.file, !.parsed = @ + 1, !.fetched = @ + 1,
                     !.written = @ + 1,
                     !.appended = IF written.wrote THEN @ + 1 ELSE @]

\* lines 134-137
AfterFetch(event_data, fetched, e, acc) ==
    IF fetched.raised
    THEN [acc EXCEPT !.caught = "fetch_token_metadata", !.parsed = @ + 1,
                     !.fetched = @ + 1]
    ELSE AfterWrite(write_to_csv_reporting(DictUpdate(event_data, fetched.metadata),
                                           acc.file, e),
                    acc)

\* lines 129-133.  parse_event_data raised (after its print of line 62 or
\* with the exception of that print); or the print of line 132 raises, before
\* anything is fetched; or the metadata is fetched.
AfterParse(parsed, e, acc) ==
    IF ~parsed.ok THEN [acc EXCEPT !.caught = "parse_event_data", !.parsed = @ + 1]
    ELSE IF 132 \in e.out THEN [acc EXCEPT !.caught = "print", !.parsed = @ + 1]
    ELSE AfterFetch(DictSet(parsed.event, "mint_time", Str(get_current_time(e.now))),
                    fetch_token_metadata_reporting(
                        parsed.event[DictValue(parsed.event, "uri")].v.v, e),
                    e, acc)

\* lines 125-126
AfterB64(decoded, env, acc) ==
    IF ~decoded.ok THEN [acc EXCEPT !.caught = "b64decode"]
    ELSE AfterParse(parse_event_data(Hex(decoded.bytes)), env[acc.fetched + 1], acc)

\* lines 123-137 for one log entry: the effects acc of the entries before it,
\* extended by this entry's; caught names the call whose exception ended it
ProcessEntry(log_entry, env, acc) ==
    IF Contains(log_entry, DataMarker) /\ ~StartsWith(log_entry, ExcludedPrefix)
    THEN AfterB64(b64decode(Split1(log_entry, DataMarker)), env, acc)
    ELSE acc

\* lines 122-137: the loop over the log entries lo..hi, the first half of
\* them and then the second.  An exception leaves the loop: the entries after
\* it are not looked at.
RECURSIVE ProcessEntries(_, _, _, _, _)
ProcessEntries(logs, lo, hi, env, acc) ==
    IF lo > hi \/ acc.caught # "none" THEN acc
    ELSE IF lo = hi THEN ProcessEntry(logs[lo], env, acc)
    ELSE ProcessEntries(logs, (lo + hi) \div 2 + 1, hi, env,
                        ProcessEntries(logs, lo, (lo + hi) \div 2, env, acc))

\* the body of the try block without the test of line 121
ProcessTryEveryMessage(response, env, file) ==
    IF response.kind = "not_json" THEN [NoEffects(file) EXCEPT !.caught = "json.loads"]
    ELSE IF response.kind = "bad_shape" THEN [NoEffects(file) EXCEPT !.caught = "logs"]
    ELSE ProcessEntries(response.logs, 1, Len(response.logs), env, NoEffects(file))

\* lines 118-137: the body of the try block
ProcessTry(response, env, file) ==
    IF response.kind = "not_json" THEN [NoEffects(file) EXCEPT !.caught = "json.loads"]
    ELSE IF response.kind = "bad_shape" THEN [NoEffects(file) EXCEPT !.caught = "logs"]
    ELSE IF Contains(Join(response.logs), InstructionMarker)
        THEN ProcessEntries(response.logs, 1, Len(response.logs), env, NoEffects(file))
        ELSE NoEffects(file)

\* process_logs_response without its handler: the exception reaches the caller
process_logs_response_unguarded(response, env, file) ==
    [raised |-> ProcessTry(response, env, file).caught # "none",
     effects |-> ProcessTry(response, env, file)]

\* lines 139-140: the handler of process_logs_response after the try block
\* ended with the effects given
Reported(effects, env) ==
    [raised |-> effects.caught # "none" /\ 140 \in env[1].out, effects |-> effects]

\* lines 117-140: every Exception of the try block is caught and logged (140),
\* and none reaches the caller but the exception of that print, when standard
\* output fails for it (140 in env[1].out)
process_logs_response(response, env, file) ==
    Reported(ProcessTry(response, env, file), env)

(***************************************************************************)
(* Inputs: the wire format written out (the inverse of what                *)
(* parse_event_data and b64decode read), and the bounded input sets        *)
(***************************************************************************)
\* str.encode('utf-8') of one code point
Utf8Bytes(c) ==
    IF c < 128 THEN <<c>>
    ELSE IF c < 2048 THEN <<192 + (c \div 64), 128 + (c % 64)>>
    ELSE IF c < 65536 THEN <<224 + (c \div 4096), 128 + ((c \div 64) % 64), 128 + (c % 64)>>
    ELSE <<240 + (c \div 262144), 128 + ((c \div 4096) % 64), 128 + ((c \div 64) % 64),
           128 + (c % 64)>>

RECURSIVE Utf8Encode(_)
Utf8Encode(text) ==
    IF text = <<>> THEN <<>> ELSE Utf8Bytes(Head(text)) \o Utf8Encode(Tail(text))

\* struct.pack('<I', n)
PackU32LE(n) == <<n % 256, (n \div 256) % 256, (n \div 65536) % 256, n \div 16777216>>

Tag == <<1, 2, 3, 4, 5, 6, 7, 8>>

\* the buffer of a record whose three strings are the byte strings b1, b2, b3,
\* announced with the lengths n1, n2, n3
EncodeBytes(b1, n1, b2, n2, b3, n3, keys) ==
    Tag \o PackU32LE(n1) \o b1 \o PackU32LE(n2) \o b2 \o PackU32LE(n3) \o b3
        \o keys[1] \o keys[2] \o keys[3]

\* the documented wire format of a record
Encode(rec) ==
    LET b1 == Utf8Encode(rec.name)
        b2 == Utf8Encode(rec.symbol)
        b3 == Utf8Encode(rec.uri)
    IN  EncodeBytes(b1, Len(b1), b2, Len(b2), b3, Len(b3), rec.keys)

B64Char(v) ==
    IF v < 26 THEN 65 + v
    ELSE IF v < 52 THEN 71 + v
    ELSE IF v < 62 THEN v - 4
    ELSE IF v = 62 THEN 43
    ELSE 47

\* base64.b64encode
B64Encode(bytes) ==
    LET n == Len(bytes)
        At0(i) == IF i <= n THEN bytes[i] ELSE 0
    IN  [k \in 1..(4 * ((n + 2) \div 3)) |->
            LET g == 3 * ((k - 1) \div 4)
            IN  IF (k - 1) % 4 = 0 THEN B64Char(At0(g + 1) \div 4)
                ELSE IF (k - 1) % 4 = 1
                    THEN B64Char((At0(g + 1) % 4) * 16 + (At0(g + 2) \div 16))
                ELSE IF (k - 1) % 4 = 2
                    THEN (IF g + 2 > n THEN Pad
                          ELSE B64Char((At0(g + 2) % 16) * 4 + (At0(g + 3) \div 64)))
                ELSE (IF g + 3 > n THEN Pad ELSE B64Char(At0(g + 3) % 64))]

Key1 == [i \in 1..PubkeyLen |-> i]
Key2 == [i \in 1..PubkeyLen |-> IF i = PubkeyLen THEN 5 ELSE 0]
Key3 == [i \in 1..PubkeyLen |-> 255]

\* strings with NUL bytes at either end and inside, and characters of 1 to 4 bytes
Texts ==
    { <<>>, <<65>>, <<65, 0>>, <<65, 0, 0>>, <<0, 65>>, <<0>>, <<65, 0, 66>>,
      <<233, 8364>>, <<128512, 0>>, <<104, 116, 116, 112, 58, 47, 47, 120>> }

BaseRecord ==
    [name |-> <<65, 66>>, symbol |-> <<83>>,
     uri |-> <<104, 116, 116, 112, 58, 47, 47, 120>>, keys |-> <<Key1, Key2, Key3>>]

Records ==
    {[BaseRecord EXCEPT !.name = t] : t \in Texts}
        \cup {[BaseRecord EXCEPT !.symbol = t] : t \in Texts}
        \cup {[BaseRecord EXCEPT !.uri = t] : t \in Texts}
        \cup {[BaseRecord EXCEPT !.keys = k] :
                k \in {<<Key2, Key3, Key1>>, <<Key3, Key1, Key2>>, <<Key2, Key2, Key2>>}}

\* byte strings that are not UTF-8: a stray byte, a cut sequence, an overlong
\* form, a surrogate, a code point past U+10FFFF
BadUtf8 == { <<255>>, <<65, 195>>, <<192, 128>>, <<237, 160, 128>>, <<244, 144, 128, 128>>,
             <<128>> }

\* announced lengths that pass the end of the buffer by one byte and by far
BadLengths(inside) == {inside + 1, 65535, 16777216, 2147483647}

DecodeInput(kind, rec, data) == [kind |-> kind, record |-> rec, data |-> data]

\* the buffers handed to parse_event_data
DecodeInputs ==
    {DecodeInput("encoded", r, Encode(r)) : r \in Records}
    \cup UNION {{DecodeInput("prefix", r, SubSeq(Encode(r), 1, n)) :
                    n \in 0..(Len(Encode(r)) - 1)} : r \in {BaseRecord, [BaseRecord EXCEPT !.name = <<>>, !.symbol = <<>>,
                                                       !.uri = <<>>]}}
    \cup {DecodeInput("trailing", BaseRecord, Encode(BaseRecord) \o t) : t \in {<<0>>, <<1, 2>>}}
    \cup {DecodeInput("bad_utf8", BaseRecord,
                      EncodeBytes(b, Len(b), <<83>>, 1, <<117>>, 1, BaseRecord.keys)) :
            b \in BadUtf8}
    \cup {DecodeInput("bad_utf8", BaseRecord,
                      EncodeBytes(<<65>>, 1, <<83>>, 1, b, Len(b), BaseRecord.keys)) :
            b \in BadUtf8}
    \cup {DecodeInput("bad_length", BaseRecord,
                      EncodeBytes(<<65>>, n, <<83>>, 1, <<117>>, 1, BaseRecord.keys)) :
            n \in BadLengths(1 + 4 + 1 + 4 + 1 + 3 * PubkeyLen)}
    \cup {DecodeInput("bad_length", BaseRecord,
                      EncodeBytes(<<65>>, 1, <<83>>, n, <<117>>, 1, BaseRecord.keys)) :
            n \in BadLengths(1 + 4 + 1 + 3 * PubkeyLen)}
    \cup {DecodeInput("bad_length", BaseRecord,
                      EncodeBytes(<<65>>, 1, <<83>>, 1, <<117>>, n, BaseRecord.keys)) :
            n \in BadLengths(1 + 3 * PubkeyLen)}
    \cup {DecodeInput("bad_length", BaseRecord,
                      Tag \o <<255, 255, 255, 255>> \o SubSeq(Encode(BaseRecord), TagLen + 5,
                                                Len(Encode(BaseRecord))))}

ProgramLog == <<80, 114, 111, 103, 114, 97, 109, 32, 108, 111, 103, 58, 32>>   \* "Program log: "
InstructionLine == ProgramLog \o InstructionMarker
DataLine(data) == DataMarker \o B64Encode(data)

Logs(lines) == [kind |-> "logs", logs |-> lines]
NotJson == [kind |-> "not_json", logs |-> <<>>]
BadShape == [kind |-> "bad_shape", logs |-> <<>>]
NoLogs == [kind |-> "no_logs", logs |-> <<>>]
LogsDict(keys) == [kind |-> "logs_dict", logs |-> keys]
LogsStr(text) == [kind |-> "logs_str", logs |-> [i \in 1..Len(text) |-> <<text[i]>>]]

\* a message with the instruction marker and one data line carrying data
MessageWithPayload(data) == Logs(<<InstructionLine, DataLine(data)>>)

Clock1 == [year |-> 2024, month |-> 3, day |-> 5, hour |-> 7, minute |-> 8, second |-> 9]

Raise == [kind |-> "raise", status |-> 0, body |-> [t |-> "notjson", d |-> <<>>]]
Response(status, body) == [kind |-> "response", status |-> status, body |-> body]
JsonDict(d) == [t |-> "dict", d |-> d]

\* what the world answers while one entry is handled: the clock, the answer of
\* the metadata server, the answer of the file system, and the lines of the
\* prints that raise (none: standard output accepts every print)
Env(now, fetch, io) == [now |-> now, fetch |-> fetch, io |-> io, out |-> {}]
\* the same with standard output failing for the prints of the lines out
PrintsRaise(e, out) == [e EXCEPT !.out = out]

(***************************************************************************)
(* Function-level runs: Init draws the input, an action applies the        *)
(* function, and Dispatch hands a message to process_logs_response         *)
(***************************************************************************)
NoLast ==
    [op |-> "start", raised |-> FALSE, caught |-> "none", parsed |-> 0, fetched |-> 0,
     written |-> 0, appended |-> 0]

\* what a call of process_logs_response did, for `last`
Summary(op, r) ==
    [op |-> op, raised |-> r.raised, caught |-> r.effects.caught,
     parsed |-> r.effects.parsed, fetched |-> r.effects.fetched,
     written |-> r.effects.written, appended |-> r.effects.appended]

CallParse ==
    /\ pc = "call_parse"
    /\ ret' = parse_event_data(Hex(arg.input.data))
    /\ pc' = "dispatch"
    /\ UNCHANGED <<retry_count, sleep_time, csv_file, last, arg>>

\* the sink and the summary after the call that returned r
Dispatched(r) ==
    /\ csv_file' = r.effects.file
    /\ last' = Summary("dispatch", r)

Dispatch ==
    /\ pc = "dispatch"
    /\ Dispatched(process_logs_response(arg.response, arg.env, csv_file))
    /\ pc' = "done"
    /\ UNCHANGED <<retry_count, sleep_time, arg, ret>>

InitDecode ==
    /\ pc = "call_parse"
    /\ arg \in {[input |-> i, response |-> MessageWithPayload(i.data),
                 env |-> <<Env(Clock1, Raise, "ok")>>] : i \in DecodeInputs}
    /\ ret = <<>>
    /\ retry_count = 0
    /\ sleep_time = 0
    /\ csv_file = <<>>
    /\ last = NoLast

NextDecode == CallParse \/ Dispatch

SpecDecode == InitDecode /\ [][NextDecode]_vars

(***************************************************************************)
(* fetch_token_metadata on bounded documents                               *)
(***************************************************************************)
\* values a key of the fetched document may hold: "", "NA", "abc", "@xyz",
\* "@@x", "http://a", "https://a", null and a number
JsonValues ==
    { Str(<<>>), Str(NA), Str(<<97, 98, 99>>), Str(<<64, 120, 121, 122>>),
      Str(<<64, 64, 120>>), Str(HttpPrefix \o <<97>>), Str(HttpsPrefix \o <<97>>),
      PyNone, PyInt(-7) }

\* every document over the four keys: each key absent or holding one of JsonValues
Documents == UNION {[K -> JsonValues] : K \in SUBSET {"image", "twitter", "telegram", "website"}}

FullDocument ==
    [k \in {"image", "twitter", "telegram", "website", "description"} |->
        Str(HttpsPrefix \o <<97>>)]

\* bodies that are no JSON, or JSON that is no object
OtherBodies ==
    { [t |-> "notjson", d |-> <<>>], [t |-> "list", d |-> <<>>], [t |-> "str", d |-> <<>>],
      [t |-> "int", d |-> <<>>], [t |-> "none", d |-> <<>>] }

FetchOutcomes ==
    {Raise}
        \cup {Response(200, JsonDict(d)) : d \in Documents}
        \cup {Response(st, b) : st \in {200, 204, 304, 404, 500},
                                 b \in OtherBodies \cup {JsonDict(FullDocument)}}

CallFetch ==
    /\ pc = "call_fetch"
    /\ ret' = fetch_token_metadata(arg.input.uri, arg.input.outcome)
    /\ pc' = "returned"
    /\ UNCHANGED <<retry_count, sleep_time, csv_file, last, arg>>

InitFetch ==
    /\ pc = "call_fetch"
    /\ arg \in {[input |-> [uri |-> BaseRecord.uri, outcome |-> o], response |-> NoLogs,
                 env |-> <<Env(Clock1, o, "ok")>>] : o \in FetchOutcomes}
    /\ ret = <<>>
    /\ retry_count = 0
    /\ sleep_time = 0
    /\ csv_file = <<>>
    /\ last = NoLast

SpecFetch == InitFetch /\ [][CallFetch]_vars

(***************************************************************************)
(* process_logs_response on bounded messages                               *)
(***************************************************************************)
RecordB == [BaseRecord EXCEPT !.name = <<66>>, !.keys = <<Key2, Key2, Key2>>]
ValidLineA == DataLine(Encode(BaseRecord))
ValidLineB == DataLine(Encode(RecordB))
\* "Program data: vdt/AAAA"
ExcludedLine == ExcludedPrefix \o <<65, 65, 65, 65>>
\* a payload that is no base64: five digits
BadBase64Line == DataMarker \o <<65, 65, 65, 65, 65>>
\* a payload that is base64 of three bytes: too short for the decoder
ShortLine == DataMarker \o <<65, 65, 65, 65>>
OtherLine == ProgramLog \o <<120>>

DispatchMessages ==
    { NotJson, BadShape, NoLogs,
      LogsDict(<<InstructionLine, ValidLineA>>),
      LogsDict(<<ValidLineA>>),
      LogsStr(InstructionLine \o ValidLineA),
      Logs(<<OtherLine>>),
      Logs(<<ValidLineA>>),
      Logs(<<OtherLine, ValidLineA, BadBase64Line>>),
      Logs(<<InstructionLine>>),
      Logs(<<InstructionLine, ValidLineA>>),
      Logs(<<ValidLineA, InstructionLine>>),
      Logs(<<InstructionLine, OtherLine, ValidLineA>>),
      Logs(<<InstructionLine, ExcludedLine, ValidLineA>>),
      Logs(<<InstructionLine, ProgramLog \o ExcludedLine, ValidLineA>>),
      Logs(<<InstructionLine, ProgramLog \o ValidLineA>>),
      Logs(<<InstructionLine, BadBase64Line, ValidLineA>>),
      Logs(<<InstructionLine, ShortLine, ValidLineA>>),
      Logs(<<InstructionLine, ValidLineA, ShortLine>>),
      Logs(<<InstructionLine, ValidLineA, ValidLineB>>),
      Logs(<<InstructionLine, ValidLineA, ValidLineA>>),
      Logs(<<SubSeq(InstructionLine, 1, 20), SubSeq(InstructionLine, 21, Len(InstructionLine)),
             ValidLineB>>) }

DispatchFetches ==
    { Raise,
      Response(404, JsonDict(FullDocument)),
      Response(200, JsonDict(FullDocument)),
      Response(200, JsonDict([k \in {"twitter"} |-> Str(<<64, 120, 121, 122>>)])),
      Response(200, JsonDict([k \in {"image"} |-> PyNone])),
      Response(200, JsonDict([k \in {"image"} |-> PyInt(-12)])),
      Response(200, JsonDict([k \in {"image", "website"} |-> Str(<<>>)])) }

DispatchEnvs == {Env(Clock1, f, io) : f \in DispatchFetches, io \in {"ok", "open_fails", "row_fails"}}

\* a file that a run before left: the header and a row
OldFile ==
    process_logs_response(Logs(<<InstructionLine, ValidLineB>>), <<Env(Clock1, Raise, "ok")>>,
                          <<>>).effects.file

InitDispatch ==
    /\ pc = "dispatch"
    /\ arg \in {[input |-> <<>>, response |-> m, env |-> <<e1, e2>>] :
                    m \in DispatchMessages, e1 \in DispatchEnvs, e2 \in {Env(Clock1, Raise, "ok"),
                            Env(Clock1, Response(200, JsonDict(FullDocument)), "ok")}}
    /\ ret = <<>>
    /\ retry_count = 0
    /\ sleep_time = 0
    /\ csv_file \in {<<>>, OldFile}
    /\ last = NoLast

SpecDispatch == InitDispatch /\ [][Dispatch]_vars

(***************************************************************************)
(* The process: __main__, main, logs_subscribe and subscribe_to_logs.      *)
(* pc is the line the process is at:                                       *)
(*   "start"       line 207, about to call asyncio.run(main())             *)
(*   "connect"     line 172, about to open the connection                  *)
(*   "subscribe"   line 154, connected, about to send the request          *)
(*   "recv"        line 159, in the receive loop                           *)
(*   "sleep"       line 185, in the backoff sleep                          *)
(*   "gave_up"     line 181, logs_subscribe left its loop and returns      *)
(*   "restart_script" line 199, main's handler called restart_script       *)
(* Standard output accepts every print: no handler fails while it reports  *)
(* (SpecMain lifts this).                                                  *)
(***************************************************************************)
max_retries == 20
restart_delay == 5
backoff_factor == 3
SleepCap == 30

\* the messages the connection can deliver, at most this many in a run
MaxReceives == 2

\* b ** n where it is at most cap, and a number above cap where b ** n is above
\* cap (b >= 1): min(cap, b ** n + d) is the same for both
RECURSIVE PowOver(_, _, _)
PowOver(b, n, cap) == IF n = 0 THEN 1 ELSE b * Min(PowOver(b, n - 1, cap), cap + 1)

\* line 183 without the cap
SleepTimeUncapped(n) == PowOver(backoff_factor, n, SleepCap) + (n % 2)

\* line 183
SleepTime(n) == Min(SleepCap, PowOver(backoff_factor, n, SleepCap) + (n % 2))

RecordC == [RecordB EXCEPT !.name = <<67>>]

MainMessages ==
    { NotJson,
      Logs(<<InstructionLine, DataLine(Encode(RecordB))>>),
      Logs(<<InstructionLine, BadBase64Line, DataLine(Encode(RecordC))>>),
      Logs(<<InstructionLine, DataLine(Encode(RecordC)), ShortLine>>),
      Logs(<<InstructionLine, DataLine(Encode(RecordC)), DataLine(Encode(RecordB))>>) }

MainEnvs ==
    {Env(Clock1, Raise, "ok"), Env(Clock1, Raise, "open_fails"), Env(Clock1, Raise, "row_fails")}

Step(op) == [NoLast EXCEPT !.op = op]

\* the handler of lines 175-185 with the test retry_count >= max_retries
ExceptBlockGivesUpEarly(op) ==
    /\ retry_count' = retry_count + 1
    /\ IF retry_count + 1 >= max_retries
       THEN /\ pc' = "gave_up"
            /\ UNCHANGED sleep_time
       ELSE /\ sleep_time' = SleepTime(retry_count + 1)
            /\ pc' = "sleep"
    /\ last' = Step(op)

\* lines 175-185: the handler of logs_subscribe for an exception of the try block
ExceptBlock(op) ==
    /\ retry_count' = retry_count + 1
    /\ IF retry_count + 1 > max_retries
       THEN /\ pc' = "gave_up"
            /\ UNCHANGED sleep_time
       ELSE /\ sleep_time' = SleepTime(retry_count + 1)
            /\ pc' = "sleep"
    /\ last' = Step(op)

\* line 207 and line 167: asyncio.run(main()) starts the task logs_subscribe
RunMain ==
    /\ pc = "start"
    /\ retry_count' = 0
    /\ sleep_time' = 0
    /\ pc' = "connect"
    /\ last' = Step("run_main")
    /\ arg' = [arg EXCEPT !.sent = <<>>]
    /\ UNCHANGED <<csv_file, ret>>

\* line 172: websockets.connect succeeds or raises
Connect ==
    /\ pc = "connect"
    /\ \E ok \in BOOLEAN :
        IF ok
        THEN /\ pc' = "subscribe"
             /\ last' = Step("connect_ok")
             /\ UNCHANGED <<retry_count, sleep_time>>
        ELSE ExceptBlock("connect_failed")
    /\ arg' = [arg EXCEPT !.sent = <<>>]
    /\ UNCHANGED <<csv_file, ret>>

\* lines 144-152: the subscription request
request ==
    [jsonrpc |-> "2.0", id |-> 1, method |-> "logsSubscribe",
     params |-> <<[mentions |-> <<"6EF8rrecthR5Dkzon8Nwu78hRvfCKubJ14M5uBEwF6P">>],
                  [commitment |-> "processed"]>>]

\* subscribe_to_logs that goes on to receive when the send raised
SubscribeUnchecked ==
    /\ pc = "subscribe"
    /\ \E ok \in BOOLEAN :
        /\ pc' = "recv"
        /\ last' = Step(IF ok THEN "send_ok" ELSE "send_failed")
        /\ arg' = [arg EXCEPT !.sent = IF ok THEN Append(@, request) ELSE @]
        /\ UNCHANGED <<retry_count, sleep_time>>
    /\ UNCHANGED <<csv_file, ret>>

\* line 154: websocket.send succeeds or raises; the exception leaves
\* subscribe_to_logs and the with block and reaches the handler of line 175
Subscribe ==
    /\ pc = "subscribe"
    /\ \E ok \in BOOLEAN :
        IF ok
        THEN /\ pc' = "recv"
             /\ last' = Step("send_ok")
             /\ arg' = [arg EXCEPT !.sent = Append(@, request)]
             /\ UNCHANGED <<retry_count, sleep_time>>
        ELSE /\ ExceptBlock("send_failed")
             /\ UNCHANGED arg
    /\ UNCHANGED <<csv_file, ret>>

\* the return of the session without the reset of line 174
SessionReturnsKeepsCount ==
    /\ pc' = "connect"
    /\ UNCHANGED <<retry_count, sleep_time>>

\* lines 161-163 and 174: the loop is left, subscribe_to_logs returns, the with
\* block is left, retry_count is reset and the loop of line 169 connects again
SessionReturns ==
    /\ retry_count' = 0
    /\ pc' = "connect"
    /\ UNCHANGED sleep_time

\* lines 159, 161-163: websocket.recv raises
ReceiveFails ==
    /\ pc = "recv"
    /\ SessionReturns
    /\ last' = Step("recv_failed")
    /\ UNCHANGED <<csv_file, arg, ret>>

\* line 160 returned r, or raised
Received(r) ==
    /\ Dispatched(r)
    /\ IF r.raised
       THEN SessionReturns
       ELSE /\ pc' = "recv"
            /\ UNCHANGED <<retry_count, sleep_time>>

\* lines 159-160: websocket.recv returns a message and it is dispatched
Receive ==
    /\ pc = "recv"
    /\ arg.received < MaxReceives
    /\ \E m \in MainMessages, e \in MainEnvs :
        /\ Received(process_logs_response(m, <<e, e>>, csv_file))
        /\ arg' = [arg EXCEPT !.received = @ + 1, !.msg = m]
    /\ UNCHANGED ret

\* line 185: the backoff sleep ends and the loop of line 169 connects again
Sleep ==
    /\ pc = "sleep"
    /\ pc' = "connect"
    /\ last' = Step("slept")
    /\ UNCHANGED <<retry_count, sleep_time, csv_file, arg, ret>>

\* line 192: asyncio.wait(tasks, return_when=FIRST_EXCEPTION) returns the sets
\* (done, pending) when the task is done, however it ended; it does not raise
\* the exception of the task
WaitRaises(task_end) == FALSE

\* the end of the task ends the process: the loop of line 205 left out
MainReturnsAndExits ==
    /\ pc = "gave_up"
    /\ pc' = "exited"
    /\ last' = Step("main_returned")
    /\ UNCHANGED <<retry_count, sleep_time, csv_file, arg, ret>>

\* lines 192-195 and 205-207: the task is done, by its return or by an
\* exception, main returns or calls restart_script, and the loop of line 205
\* runs main again
MainReturns ==
    /\ pc \in {"gave_up", "task_failed"}
    /\ pc' = IF WaitRaises(pc) THEN "restart_script" ELSE "start"
    /\ last' = Step("main_returned")
    /\ UNCHANGED <<retry_count, sleep_time, csv_file, arg, ret>>

Init ==
    /\ pc = "start"
    /\ retry_count = 0
    /\ sleep_time = 0
    /\ csv_file \in {<<>>, OldFile}
    /\ last = NoLast
    /\ arg = [sent |-> <<>>, received |-> 0, msg |-> NoLogs]
    /\ ret = <<>>

Next ==
    \/ RunMain
    \/ Connect
    \/ Subscribe
    \/ ReceiveFails
    \/ Receive
    \/ Sleep
    \/ MainReturns

Spec == Init /\ [][Next]_vars

\* The steps that the program takes by itself: run_until_complete starts the
\* task (207), websockets.connect returns or raises within its open timeout
\* (172), send returns or raises (154), asyncio.sleep returns (185), and the
\* loop of line 205 goes on when main returns.  websocket.recv (159) returns
\* when the peer sends a message or the connection ends, which nothing in the
\* program brings about: no fairness for Receive and ReceiveFails.
SpecLive ==
    /\ Spec
    /\ WF_vars(RunMain)
    /\ WF_vars(Connect)
    /\ WF_vars(Subscribe)
    /\ WF_vars(Sleep)
    /\ WF_vars(MainReturns)

(***************************************************************************)
(* The process while standard output may fail (SpecMain)                   *)
(*                                                                         *)
(* A print raises when standard output is a pipe that is full or whose     *)
(* reader is gone (BlockingIOError, BrokenPipeError), each print by        *)
(* itself.  The prints of the task and where their exception goes:         *)
(*   62       in the handler of parse_event_data, which raises anyway      *)
(*   95       leaves fetch_token_metadata, caught in line 139              *)
(*   111      caught in line 112                                           *)
(*   113      leaves write_to_csv, caught in line 139                      *)
(*   132      caught in line 139                                           *)
(*   140      leaves process_logs_response, caught in line 161             *)
(*   155, 162 leave subscribe_to_logs, caught in line 175                  *)
(*   171      caught in line 175, as an exception of websockets.connect is *)
(*   176, 180, 184   leave logs_subscribe: the task ends with an exception *)
(*   "task_failed" the task logs_subscribe has ended with an exception     *)
(***************************************************************************)
\* the prints of process_logs_response and of what it calls whose exception
\* changes what the call does
DispatchPrints == {95, 111, 113, 132, 140}

\* the sets of these prints that raise during one call.  A print of line 132
\* or 95 that raises ends the loop of line 122 before the prints of lines 95,
\* 111 and 113 are reached: the sets with 132 or 95 and one of those prints do
\* what the sets without them do.
DispatchPrintSets ==
    {out \in (SUBSET DispatchPrints) \ {{}} :
        /\ 132 \in out => out \subseteq {132, 140}
        /\ 95 \in out => out \subseteq {95, 140}}

\* lines 175-184 with a print of the handler that raises: that of line 176,
\* before retry_count is counted up; that of line 180, with retry_count past
\* max_retries; or that of line 184, with sleep_time computed.  The exception
\* leaves logs_subscribe.
HandlerPrintRaises ==
    /\ \E line \in {176, 180, 184} :
        /\ line = 180 => retry_count + 1 > max_retries
        /\ line = 184 => retry_count + 1 <= max_retries
        /\ retry_count' = IF line = 176 THEN retry_count ELSE retry_count + 1
        /\ sleep_time' = IF line = 184 THEN SleepTime(retry_count + 1) ELSE sleep_time
    /\ pc' = "task_failed"
    /\ last' = Step("handler_raised")

\* lines 175-185 entered: the handler counts the failure and sleeps or gives
\* up, or one of its prints raises
Handler(op) ==
    \/ ExceptBlock(op)
    \/ HandlerPrintRaises

\* lines 171/172/154 and 175-184: the print of line 171, websockets.connect or
\* send raises, the handler is entered and one of its prints raises
HandlerRaises ==
    /\ pc \in {"connect", "subscribe"}
    /\ HandlerPrintRaises
    /\ arg' = IF pc = "connect" THEN [arg EXCEPT !.sent = <<>>] ELSE arg
    /\ UNCHANGED <<csv_file, ret>>

\* lines 154-155: the request is sent and the print of line 155 raises; the
\* exception leaves subscribe_to_logs and the with block and reaches the
\* handler of line 175
SubscribeUnreported ==
    /\ pc = "subscribe"
    /\ arg' = [arg EXCEPT !.sent = Append(@, request)]
    /\ Handler("subscribed_unreported")
    /\ UNCHANGED <<csv_file, ret>>

\* lines 159, 161-162: websocket.recv raises and the print of line 162 raises;
\* the exception leaves subscribe_to_logs before the break of line 163 and
\* reaches the handler of line 175
ReceiveFailsUnreported ==
    /\ pc = "recv"
    /\ Handler("recv_failed")
    /\ UNCHANGED <<csv_file, arg, ret>>

\* a message is dispatched while prints raise only as one of the first
\* MaxUnreported messages that the process receives
MaxUnreported == 1

\* lines 159-162: websocket.recv returns a message and it is dispatched while
\* the prints of the lines out raise.  When the print of line 140 let an
\* exception leave process_logs_response, the handler of line 161 prints (162)
\* and leaves the loop, or that print raises too and the exception reaches
\* the handler of line 175.
ReceiveUnreported ==
    /\ pc = "recv"
    /\ arg.received < MaxUnreported
    /\ \E m \in MainMessages, e \in MainEnvs, out \in DispatchPrintSets :
        /\ LET r == process_logs_response(m, <<PrintsRaise(e, out), PrintsRaise(e, out)>>,
                                          csv_file)
           IN  \/ Received(r)
               \/ /\ r.raised
                  /\ csv_file' = r.effects.file
                  /\ Handler("dispatch_failed")
        /\ arg' = [arg EXCEPT !.received = @ + 1, !.msg = m]
    /\ UNCHANGED ret

NextMain ==
    \/ Next
    \/ HandlerRaises
    \/ SubscribeUnreported
    \/ ReceiveFailsUnreported
    \/ ReceiveUnreported

SpecMain == Init /\ [][NextMain]_vars

(***************************************************************************)
(* Properties of the process (Spec)                                        *)
(***************************************************************************)
\* C1: the supervisor opens a connection only at the start of a run or out of
\* a backoff sleep that followed an increment of the retry counter: no session
\* end is followed by a connection attempt without the sleep between them.
C1_BackoffBeforeEveryConnect ==
    [][(pc' = "connect" /\ pc # "start") => (pc = "sleep" /\ retry_count >= 1)]_vars

\* C2: once the supervisor gave up, the next step of the process is
\* restart_script (the cooldown and the re-exec), never another run of main
\* inside the same process.
C2_GiveUpReExecs ==
    [][pc = "gave_up" => pc' = "restart_script"]_vars

\* C3: in the receive loop a step leaves the loop if and only if the receive
\* itself failed; a dispatch, whatever failed inside it, raises nothing and
\* leaves the process in the loop, ready for the next message.
C3_OnlyTransportEndsLoop ==
    [][pc = "recv" =>
         /\ (pc' # "recv") <=> (last'.op = "recv_failed")
         /\ last'.op = "dispatch" => (~last'.raised /\ pc' = "recv")]_vars

\* a message that failed in dispatch or at the sink left no row, and the
\* message received after it was processed and left its row
C3_Witness ==
    /\ pc = "recv"
    /\ arg.received = 2
    /\ last.op = "dispatch"
    /\ last.caught = "none"
    /\ last.appended = 1
    /\ Len(csv_file) = 2

(***************************************************************************)
(* Properties of process_logs_response (SpecDispatch)                      *)
(***************************************************************************)
\* the decoder accepts the payload that b64decode returned
DecoderAccepts(decoded) == decoded.ok /\ parse_event_data(Hex(decoded.bytes)).ok

\* a data line that is not excluded and decodes
Decodable(log_entry) ==
    /\ Contains(log_entry, DataMarker)
    /\ ~StartsWith(log_entry, ExcludedPrefix)
    /\ DecoderAccepts(b64decode(Split1(log_entry, DataMarker)))

\* C4: after the dispatch of a message with the instruction marker, with a
\* sink that accepts every write, every data line that is not excluded and
\* decodes has produced its row, whatever lines failed before it.
C4_FailingLineSkipped ==
    (/\ pc = "done"
     /\ arg.response.kind = "logs"
     /\ Contains(Join(arg.response.logs), InstructionMarker)
     /\ \A j \in 1..Len(arg.env) : arg.env[j].io = "ok")
        => last.appended =
             Cardinality({i \in 1..Len(arg.response.logs) : Decodable(arg.response.logs[i])})

\* C5: every data row of the sink has a cell for every column of the record
\* and no cell is empty (an absent, empty or null value).
C5_AllFieldsPopulated ==
    pc = "done" =>
        \A i \in 1..Len(csv_file) :
            ~csv_file[i].header =>
                /\ Len(csv_file[i].cells) = Len(csv_file[i].keys)
                /\ \A j \in 1..Len(csv_file[i].cells) : csv_file[i].cells[j] # <<>>

(***************************************************************************)
(* Properties of parse_event_data (SpecDecode)                             *)
(***************************************************************************)
\* the little-endian number in the four bytes after position o
U32At(d, o) == d[o + 1] + 256 * d[o + 2] + 65536 * d[o + 3] + 16777216 * d[o + 4]

\* the string in the n bytes after position o, decoded and stripped
StringAt(d, o, n) == Str(Strip(Utf8Decode(SubSeq(d, o + 1, o + n)).text, 0))

\* the key in the 32 bytes after position o
KeyAt(d, o) == Str(Base58(SubSeq(d, o + 1, o + PubkeyLen)))

\* event is the record whose fields lie in d, one behind the other after the
\* tag, each of them wholly inside d: the strings with the lengths n1, n2, n3
ReadCompletely(d, event, n1, n2, n3) ==
    /\ TagLen + 4 <= Len(d) /\ U32At(d, TagLen) = n1
    /\ TagLen + 8 + n1 <= Len(d) /\ U32At(d, TagLen + 4 + n1) = n2
    /\ TagLen + 12 + n1 + n2 <= Len(d) /\ U32At(d, TagLen + 8 + n1 + n2) = n3
    /\ TagLen + 12 + n1 + n2 + n3 + 3 * PubkeyLen <= Len(d)
    /\ event = << [k |-> "name", v |-> StringAt(d, TagLen + 4, n1)],
                  [k |-> "symbol", v |-> StringAt(d, TagLen + 8 + n1, n2)],
                  [k |-> "uri", v |-> StringAt(d, TagLen + 12 + n1 + n2, n3)],
                  [k |-> "mint", v |-> KeyAt(d, TagLen + 12 + n1 + n2 + n3)],
                  [k |-> "bonding_curve",
                   v |-> KeyAt(d, TagLen + 12 + n1 + n2 + n3 + PubkeyLen)],
                  [k |-> "user",
                   v |-> KeyAt(d, TagLen + 12 + n1 + n2 + n3 + 2 * PubkeyLen)] >>

\* C6: parse_event_data returns a record only if all six fields were read
\* completely from inside the buffer, and nothing otherwise; every strict
\* prefix of an encoded buffer and every buffer with a length that passes its
\* end is rejected, and no row is written for a rejected buffer.
C6_AllOrNothing ==
    pc # "call_parse" =>
        /\ ret.ok =>
             \E n1 \in 0..Len(arg.input.data) :
               \E n2 \in 0..Len(arg.input.data) :
                 \E n3 \in 0..Len(arg.input.data) :
                    ReadCompletely(arg.input.data, ret.event, n1, n2, n3)
        /\ ~ret.ok => ret.event = <<>>
        /\ arg.input.kind \in {"prefix", "bad_length"} => ~ret.ok
        /\ (pc = "done" /\ ~ret.ok) =>
             (csv_file = <<>> /\ last.written = 0 /\ last.fetched = 0)

\* the encoded buffer without its last byte was rejected and dispatched
C6_Witness ==
    /\ pc = "done"
    /\ arg.input.kind = "prefix"
    /\ Len(arg.input.data) = Len(Encode(arg.input.record)) - 1
    /\ arg.input.record = BaseRecord
    /\ ~ret.ok
    /\ last.caught = "parse_event_data"
    /\ csv_file = <<>>

\* C7: for an encoded record the decoder returns the three strings with only
\* their trailing NUL characters removed, and the three keys of the record
\* in the order mint, bonding curve, user.
C7_RoundTrip ==
    (pc # "call_parse" /\ arg.input.kind = "encoded") =>
        /\ ret.ok
        /\ ret.event = << [k |-> "name", v |-> Str(RStrip(arg.input.record.name, 0))],
                          [k |-> "symbol", v |-> Str(RStrip(arg.input.record.symbol, 0))],
                          [k |-> "uri", v |-> Str(RStrip(arg.input.record.uri, 0))],
                          [k |-> "mint", v |-> Str(Base58(arg.input.record.keys[1]))],
                          [k |-> "bonding_curve",
                           v |-> Str(Base58(arg.input.record.keys[2]))],
                          [k |-> "user", v |-> Str(Base58(arg.input.record.keys[3]))] >>

(***************************************************************************)
(* Properties of fetch_token_metadata (SpecFetch)                          *)
(***************************************************************************)
\* the value of key in the returned metadata
MetaValue(metadata, key) == metadata[DictValue(metadata, key)].v

\* the fetch failed as C8 lists: no response, a status outside 2xx, a body that
\* is no JSON object, or a value that is no string
FetchFailed(outcome) ==
    \/ outcome.kind = "raise"
    \/ outcome.status < 200 \/ outcome.status > 299
    \/ outcome.body.t # "dict"
    \/ \E key \in DOMAIN outcome.body.d \cap {"image", "twitter", "telegram", "website"} :
          outcome.body.d[key].t # "str"

\* C8: fetch_token_metadata raises nothing, returns the four keys, and after a
\* failed fetch all four are "NA".
C8_NeverRaisesAllNA ==
    pc = "returned" =>
        /\ ~ret.raised
        /\ [i \in 1..Len(ret.metadata) |-> ret.metadata[i].k] = MetadataKeys
        /\ FetchFailed(arg.input.outcome) => ret.metadata = AllNA

\* the value of one key by that key alone
OwnValue(d, key) ==
    IF key \notin DOMAIN d THEN Str(NA)
    ELSE IF key = "image" THEN d[key]
    ELSE IF key = "twitter" THEN CleanLink(d[key], TwitterBase, TRUE).v
    ELSE IF key = "telegram" THEN CleanLink(d[key], TelegramBase, TRUE).v
    ELSE CleanLink(d[key], HttpsPrefix, FALSE).v

\* C9: after a fetch that returned a JSON object, the result for a key that is
\* absent or holds a string (or, for image, any value) is given by that key
\* alone, whatever the other three keys hold.
C9_KeysIndependent ==
    (/\ pc = "returned"
     /\ arg.input.outcome.kind = "response"
     /\ arg.input.outcome.status = 200
     /\ arg.input.outcome.body.t = "dict")
        => \A key \in {"image", "twitter", "telegram", "website"} :
              (\/ key \notin DOMAIN arg.input.outcome.body.d
               \/ key = "image"
               \/ arg.input.outcome.body.d[key].t = "str")
                 => MetaValue(ret.metadata, key) = OwnValue(arg.input.outcome.body.d, key)

\* "NA", or a string that begins with http:// or https://
NAOrUrl(value) == value.t = "str" /\ (value.v = NA \/ HasHttpPrefix(value.v))

\* the link under key as fetched: a string that is not "NA" and has no scheme
Handle(outcome, key) ==
    /\ outcome.kind = "response"
    /\ ~RaisesForStatus(outcome.status)
    /\ outcome.body.t = "dict"
    /\ key \in DOMAIN outcome.body.d
    /\ outcome.body.d[key].t = "str"
    /\ outcome.body.d[key].v # NA
    /\ ~HasHttpPrefix(outcome.body.d[key].v)

\* C10: in every result each of the four values is "NA" or begins with
\* http:// or https://; a fetched twitter handle h has become
\* https://twitter.com/<h without its leading @s>, a fetched telegram handle
\* https://t.me/<h without its leading @s> and a fetched website d https://<d>.
C10_EveryFieldNAOrUrl ==
    pc = "returned" =>
        /\ \A key \in {"image", "twitter", "telegram", "website"} :
              NAOrUrl(MetaValue(ret.metadata, key))
        /\ Handle(arg.input.outcome, "twitter") =>
              MetaValue(ret.metadata, "twitter") =
                  Str(TwitterBase \o LStrip(arg.input.outcome.body.d["twitter"].v, At))
        /\ Handle(arg.input.outcome, "telegram") =>
              MetaValue(ret.metadata, "telegram") =
                  Str(TelegramBase \o LStrip(arg.input.outcome.body.d["telegram"].v, At))
        /\ Handle(arg.input.outcome, "website") =>
              MetaValue(ret.metadata, "website") =
                  Str(HttpsPrefix \o arg.input.outcome.body.d["website"].v)

(***************************************************************************)
(* Properties of the sink in the process (Spec)                            *)
(***************************************************************************)
\* the data rows of a file
DataRows(file) == SelectSeq(file, LAMBDA row : ~row.header)

\* C11: a file that is not empty begins with its only header row, every data
\* row has the columns of that header in its order, and every call of
\* write_to_csv that succeeded has added exactly one data row, whatever
\* reconnections and restarts of the supervisor lie between the calls.
C11_HeaderOnce ==
    /\ [](csv_file # <<>> =>
            /\ csv_file[1].header
            /\ \A i \in 2..Len(csv_file) :
                  /\ ~csv_file[i].header
                  /\ csv_file[i].keys = csv_file[1].keys
                  /\ Len(csv_file[i].cells) = Len(csv_file[1].keys))
    /\ [][/\ Len(DataRows(csv_file')) =
                Len(DataRows(csv_file)) + (IF last'.op = "dispatch" THEN last'.appended ELSE 0)
          /\ SubSeq(csv_file', 1, Len(csv_file)) = csv_file]_vars

\* an empty file, a session opened after a failed connection, and two
\* successful calls: the header and two rows
C11_Witness ==
    /\ pc = "recv"
    /\ retry_count >= 1
    /\ arg.received = 2
    /\ last.op = "dispatch"
    /\ last.appended = 1
    /\ Len(csv_file) = 3
    /\ csv_file[1].header
    /\ csv_file[2].cells # csv_file[3].cells

(***************************************************************************)
(* Properties of the filter (SpecDispatch)                                 *)
(***************************************************************************)
\* a data line whose payload, the text behind the data marker, begins with "vdt/"
ExcludedPayload(log_entry) ==
    /\ Contains(log_entry, DataMarker)
    /\ StartsWith(Split1(log_entry, DataMarker), <<118, 100, 116, 47>>)

\* a data line whose payload is not excluded and decodes
ValidData(log_entry) ==
    /\ Contains(log_entry, DataMarker)
    /\ ~ExcludedPayload(log_entry)
    /\ DecoderAccepts(b64decode(Split1(log_entry, DataMarker)))

\* C12: after the dispatch of a message with the instruction marker whose
\* data lines are each excluded or valid, with a sink that accepts every
\* write, the decoder was called for the valid lines only and each of them
\* produced exactly one row, wherever the data marker sits in an excluded line.
C12_ExcludedNeverDecoded ==
    (/\ pc = "done"
     /\ arg.response.kind = "logs"
     /\ Contains(Join(arg.response.logs), InstructionMarker)
     /\ \A j \in 1..Len(arg.env) : arg.env[j].io = "ok"
     /\ \A i \in 1..Len(arg.response.logs) :
           Contains(arg.response.logs[i], DataMarker) =>
              (ExcludedPayload(arg.response.logs[i]) \/ ValidData(arg.response.logs[i])))
        => /\ last.parsed =
                Cardinality({i \in 1..Len(arg.response.logs) : ValidData(arg.response.logs[i])})
           /\ last.appended = last.parsed

(***************************************************************************)
(* Properties of the retry policy (Spec)                                   *)
(***************************************************************************)
\* min(30, 3^n + n mod 2); 3^n is above the cap from n = 4 on, and above the
\* integers of this model at n = 20
Backoff(n) ==
    IF n < max_retries THEN Min(SleepCap, backoff_factor ^ n + (n % 2)) ELSE SleepCap

\* C13: the delay of every backoff sleep is min(30, 3^retry_count +
\* retry_count mod 2) for the retry_count >= 1 of that failure; it is at most
\* 30, it is 30 as soon as 3^retry_count is above 30, and from one failure to
\* the next one in a row it does not decrease.
C13_BackoffDelay ==
    /\ [](pc = "sleep" =>
            /\ retry_count >= 1
            /\ sleep_time = Backoff(retry_count)
            /\ sleep_time <= SleepCap
            /\ (retry_count >= 4 => sleep_time = SleepCap))
    /\ [][(pc' = "sleep" /\ retry_count >= 1 /\ retry_count' = retry_count + 1)
             => sleep_time' >= sleep_time]_vars

\* the fourth failed connection in a row sleeps the cap
C13_Witness ==
    /\ pc = "sleep"
    /\ retry_count = 4
    /\ sleep_time = SleepCap
    /\ last.op = "connect_failed"

\* C14 as stated: while a session is receiving, the retry counter is 0.
C14_ZeroWhileReceiving == pc = "recv" => retry_count = 0

\* C14, amended: entering the receive loop and receiving leave the retry
\* counter as the failed attempts before the session left it; the counter is
\* reset to 0 when the session that was receiving ends, before the next
\* connection is opened.
C14_ResetWhenSessionEnds ==
    [][/\ (pc = "subscribe" /\ pc' = "recv") => retry_count' = retry_count
       /\ (pc = "recv" /\ pc' = "recv") => retry_count' = retry_count
       /\ (pc = "recv" /\ pc' # "recv") => (retry_count' = 0 /\ pc' = "connect")]_vars

\* a session that was opened after failed attempts (the supervisor has slept)
\* ended by a failed receive: the counter is 0 at the next connection
C14_Witness ==
    /\ pc = "connect"
    /\ last.op = "recv_failed"
    /\ sleep_time >= 4
    /\ retry_count = 0

(***************************************************************************)
(* Properties of the order of the rows (Spec)                              *)
(***************************************************************************)
\* the six event fields that the decoder has read, none where it failed
CellsRead(parsed) ==
    IF parsed.ok THEN [j \in 1..Len(EventFields) |-> parsed.event[j].v.v] ELSE <<>>

\* the event fields that a log line yields: those of its payload when it is a
\* data line that is not excluded and decodes, none otherwise
CellsOfDecoded(decoded) ==
    IF decoded.ok THEN CellsRead(parse_event_data(Hex(decoded.bytes))) ELSE <<>>

CellsOfLine(log_entry) ==
    IF Contains(log_entry, DataMarker) /\ ~StartsWith(log_entry, ExcludedPrefix)
    THEN CellsOfDecoded(b64decode(Split1(log_entry, DataMarker)))
    ELSE <<>>

\* new holds rows of the lines that yielded cells, at most one row for a line,
\* in the order of the lines
RowsOfCells(new, cells) ==
    \E f \in [1..Len(new) -> 1..Len(cells)] :
        /\ \A k \in 1..Len(new) :
            /\ cells[f[k]] # <<>>
            /\ [j \in 1..Len(EventFields) |-> new[k].cells[j]] = cells[f[k]]
        /\ \A k \in 1..(Len(new) - 1) : f[k] < f[k + 1]

InLineOrder(new, logs) ==
    \/ new = <<>>
    \/ RowsOfCells(new, [i \in 1..Len(logs) |-> CellsOfLine(logs[i])])

\* C15: every step leaves the rows of the file where they are; the dispatch
\* of a message adds its rows behind them, before the next message is
\* received, at most one row for a data line of the message and in the order
\* of its lines; no other step adds a row.
C15_ArrivalOrder ==
    [][/\ SubSeq(csv_file', 1, Len(csv_file)) = csv_file
       /\ IF last'.op = "dispatch"
          THEN InLineOrder(SubSeq(DataRows(csv_file'), Len(DataRows(csv_file)) + 1,
                                  Len(DataRows(csv_file'))),
                           arg'.msg.logs)
          ELSE csv_file' = csv_file]_vars

\* the second message received has added its two rows behind the row that
\* was in the file
C15_Witness ==
    /\ pc = "recv"
    /\ arg.received = 2
    /\ last.op = "dispatch"
    /\ last.appended = 2
    /\ Len(csv_file) = 4
    /\ csv_file[3].cells[1] = <<67>>
    /\ csv_file[4].cells[1] = <<66>>

(***************************************************************************)
(* Progress of the process (SpecLive)                                      *)
(***************************************************************************)
\* websockets.connect has just returned or raised
Attempted == last.op \in {"connect_ok", "connect_failed"}

\* C16 as stated: from every reachable state a connection attempt happens
\* again.
C16_AlwaysReconnects == []<>Attempted

\* C16: the process never stops: it is always again in an open session,
\* waiting for a message, or at a connection attempt; from every state
\* outside a session a connection attempt happens again; after the give-up a
\* fresh run of logs_subscribe starts with retry_count 0 and connects.
C16_NeverStops ==
    /\ []<>(pc = "recv" \/ Attempted)
    /\ (pc \in {"start", "connect", "sleep", "gave_up"}) ~> Attempted
    /\ (pc = "gave_up") ~> (pc = "connect" /\ last.op = "run_main" /\ retry_count = 0)

\* a run of logs_subscribe that follows a run that has received messages and
\* has given up
C16_Witness ==
    /\ pc = "connect"
    /\ last.op = "run_main"
    /\ retry_count = 0
    /\ arg.received > 0

(***************************************************************************)
(* The retry ceiling (Spec)                                                *)
(***************************************************************************)
\* C17: retry_count stays within 0..max_retries + 1; a step gives up exactly
\* when it is a failure that takes retry_count from max_retries to
\* max_retries + 1; every failure short of that starts a backoff sleep, the
\* sleep of the n-th failure since the reset with n <= max_retries.
C17_RetryCeiling ==
    /\ [](retry_count \in 0..(max_retries + 1))
    /\ [](pc = "sleep" => retry_count \in 1..max_retries)
    /\ [](pc = "gave_up" => retry_count = max_retries + 1)
    /\ [][(pc' = "gave_up")
            <=> (/\ last'.op \in {"connect_failed", "send_failed"}
                 /\ retry_count = max_retries
                 /\ retry_count' = max_retries + 1)]_vars
    /\ [][last'.op \in {"connect_failed", "send_failed"}
            => /\ retry_count' = retry_count + 1
               /\ pc' = IF retry_count < max_retries THEN "sleep" ELSE "gave_up"]_vars
    /\ [][pc' = "sleep" => retry_count' = retry_count + 1]_vars

\* the 21st failure in a row has made the handler give up
C17_Witness ==
    /\ pc = "gave_up"
    /\ retry_count = max_retries + 1
    /\ last.op \in {"connect_failed", "send_failed"}

(***************************************************************************)
(* Properties of main and the loop around it (SpecMain)                    *)
(***************************************************************************)
\* C18: once the task logs_subscribe has ended with an exception, the next
\* step of the process is restart_script (the sleep of restart_delay and the
\* re-exec): logs_subscribe is not started again before it.
C18_EscapeRestartsAfterDelay ==
    [][pc = "task_failed" => pc' = "restart_script"]_vars

(***************************************************************************)
(* The subscription request (Spec)                                         *)
(***************************************************************************)
\* C19: a connection carries at most one request, the logsSubscribe request
\* for the program address at commitment "processed"; the process waits for
\* messages, and receives or dispatches one, only on a connection on which
\* that request was sent; a send that raised sends nothing, receives nothing
\* and is a failure that the handler of logs_subscribe counts.
C19_OneSubscribePerSession ==
    /\ [](arg.sent \in {<<>>, <<request>>})
    /\ [](pc = "recv" => arg.sent = <<request>>)
    /\ [](pc = "subscribe" => arg.sent = <<>>)
    /\ [][last'.op \in {"dispatch", "recv_failed"}
            => (arg.sent = <<request>> /\ arg'.sent = arg.sent)]_vars
    /\ [][last'.op = "send_ok"
            => (arg.sent = <<>> /\ arg'.sent = <<request>> /\ pc' = "recv")]_vars
    /\ [][last'.op = "send_failed"
            => /\ arg'.sent = <<>>
               /\ arg'.received = arg.received
               /\ retry_count' = retry_count + 1
               /\ pc' \in {"sleep", "gave_up"}]_vars

\* a second session, opened after a send that failed, has sent its request
\* and received a message
C19_Witness ==
    /\ pc = "recv"
    /\ arg.sent = <<request>>
    /\ arg.received = 1
    /\ last.op = "dispatch"
    /\ retry_count = 1

(***************************************************************************)
(* The effects of one dispatch (SpecDispatch)                              *)
(***************************************************************************)
\* the message has log lines and their concatenation lacks the instruction marker
Unmarked(response) ==
    /\ response.kind \in {"logs", "logs_dict", "logs_str"}
    /\ ~Contains(Join(response.logs), InstructionMarker)

\* the number of the lines of the message that are data lines, not excluded,
\* and decode
DecodableLines(response) ==
    IF response.kind \in {"logs", "logs_dict", "logs_str"}
    THEN Cardinality({i \in 1..Len(response.logs) : Decodable(response.logs[i])})
    ELSE 0

\* the number of the payloads that parse_event_data has decoded in the dispatch
Decoded(summary) ==
    summary.parsed - (IF summary.caught = "parse_event_data" THEN 1 ELSE 0)

\* C20: the dispatch of a message without the instruction marker decodes
\* nothing, fetches nothing, writes nothing, fails nowhere and leaves the file
\* and retry_count as they were; every dispatch fetches once for each payload
\* it has decoded and never otherwise, writes at most once for each fetch, and
\* adds to the file at most one row for each write.
C20_EffectsOnlyForDecodedLines ==
    [][last'.op = "dispatch" =>
        /\ Unmarked(arg.response) =>
              /\ last'.parsed = 0
              /\ last'.fetched = 0
              /\ last'.written = 0
              /\ last'.caught = "none"
              /\ csv_file' = csv_file
              /\ retry_count' = retry_count
        /\ last'.fetched = Decoded(last')
        /\ last'.fetched <= DecodableLines(arg.response)
        /\ last'.written <= last'.fetched
        /\ last'.appended <= last'.written
        /\ Len(DataRows(csv_file')) = Len(DataRows(csv_file)) + last'.appended]_vars

\* a message with a decodable data line and without the instruction marker
\* was dispatched and the file holds what it held
C20_Witness ==
    /\ pc = "done"
    /\ Unmarked(arg.response)
    /\ DecodableLines(arg.response) = 1
    /\ \A j \in 1..Len(arg.env) : arg.env[j].io = "ok"
    /\ last.op = "dispatch"
    /\ last.parsed = 0
    /\ csv_file = OldFile

=============================================================================
